---------------------------- MODULE Spec2Model ----------------------------
(***************************************************************************)
(* A model of the wallet front end: the transfer form (SendSol), the       *)
(* balance display (BalanceDisplay), the transaction list                  *)
(* (TransactionList) and the connection facade (SolanaService).            *)
(*                                                                         *)
(* JavaScript strings are sequences of one-character strings, so that      *)
(* trim(), Number() and includes() are computed and not assumed.  Every    *)
(* awaited call is two steps: the environment settles the promise (the     *)
(* response is then part of the state), and the continuation of the async  *)
(* function runs.                                                          *)
(***************************************************************************)
EXTENDS Integers, Sequences, FiniteSets, TLC

VARIABLES
    connected,      \* useWallet().connected
    publicKey,      \* useWallet().publicKey (NoKey when null)
    \* ---- SendSol
    recipient,      \* useState('')
    amount,         \* useState('')
    isLoading,      \* useState(false)
    status,         \* useState({type: null, message: ''})
    sendPc,         \* the await handleSendSol is suspended at ("idle": not running)
    sendLocals,     \* handleSendSol's closure and locals
    sendResp,       \* the settled value of the awaited promise (Pending until then)
    rpcLog,         \* the network calls the current attempt has issued, in order
    \* ---- BalanceDisplay
    mounted,        \* "no" before the component mounts, "yes" while mounted, "gone" after
    autoRefresh,    \* prop autoRefresh
    refreshInterval,\* prop refreshInterval
    balance,        \* useState<number | null>(null)
    bdLoading,      \* useState(false)
    bdError,        \* useState<string | null>(null)
    bdInflight,     \* the fetchBalance calls suspended at their await, in start order
    timers,         \* the intervals set and not cleared
    \* ---- TransactionList
    transactions,   \* useState<Transaction[]>([])
    txLoading,      \* useState(false)
    txError,        \* useState<string | null>(null)
    txInflight,     \* the fetchTransactions calls suspended at an await, in start order
    \* ---- the record built from one transaction (the body of the map callback)
    parseIn,        \* the signature entry, the transaction and the wallet key it is given
    parseOut,       \* the Transaction record built ("none" before)
    \* ---- SolanaService
    svcMethod,      \* the method running or last run ("none" before the first)
    svcState,       \* "idle", "running", "returned" or "threw"
    svcPc,          \* the await the method is suspended at
    svcCalls,       \* the calls it has made on this.connection, in order
    svcReturn,      \* the value returned (<<>> when none)
    svcThrown,      \* the message of the Error raised ("" when none)
    \* ---- the string and number helpers
    utilIn,         \* the helper called and its arguments ("none" before)
    utilOut,        \* what it returned ("none" before)
    \* ---- a function returned by debounce(func, wait)
    dbWait,         \* wait (-1 before debounce is called)
    dbNow,          \* the time
    dbTimeout,      \* the closure's variable timeout: a timer handle (0: undefined)
    dbTimers,       \* the timers set and neither cleared nor run
    dbCalls,        \* the calls of the returned function, in order
    dbInvoked       \* the invocations of func, in order

sendVars == <<recipient, amount, isLoading, status, sendPc, sendLocals, sendResp, rpcLog>>
walletVars == <<connected, publicKey>>
bdVars == <<mounted, autoRefresh, refreshInterval, balance, bdLoading, bdError, bdInflight, timers>>
txVars == <<transactions, txLoading, txError, txInflight>>
parseVars == <<parseIn, parseOut>>
svcVars == <<svcMethod, svcState, svcPc, svcCalls, svcReturn, svcThrown>>
utilVars == <<utilIn, utilOut>>
dbVars == <<dbWait, dbNow, dbTimeout, dbTimers, dbCalls, dbInvoked>>
\* what a component never touches
otherVars == <<bdVars, txVars, parseVars, svcVars, utilVars, dbVars>>
notBd == <<sendVars, txVars, parseVars, svcVars, utilVars, dbVars>>
notTx == <<sendVars, bdVars, parseVars, svcVars, utilVars, dbVars>>

-----------------------------------------------------------------------------
(* Strings *)

IsWhitespace(c) == c \in {" ", "\t"}

RECURSIVE TrimStart(_)
TrimStart(s) ==
    IF s = <<>> THEN <<>>
    ELSE IF IsWhitespace(Head(s)) THEN TrimStart(Tail(s)) ELSE s

RECURSIVE TrimEnd(_)
TrimEnd(s) ==
    IF s = <<>> THEN <<>>
    ELSE IF IsWhitespace(s[Len(s)]) THEN TrimEnd(SubSeq(s, 1, Len(s) - 1)) ELSE s

\* String.prototype.trim
Trim(s) == TrimEnd(TrimStart(s))

Digits == {"0", "1", "2", "3", "4", "5", "6", "7", "8", "9"}

DigitValue(c) ==
    CASE c = "0" -> 0 [] c = "1" -> 1 [] c = "2" -> 2 [] c = "3" -> 3 [] c = "4" -> 4
      [] c = "5" -> 5 [] c = "6" -> 6 [] c = "7" -> 7 [] c = "8" -> 8 [] c = "9" -> 9

AllDigits(s) == s # <<>> /\ \A i \in 1..Len(s) : s[i] \in Digits

RECURSIVE DecimalValue(_)
DecimalValue(s) ==
    IF s = <<>> THEN 0
    ELSE 10 * DecimalValue(SubSeq(s, 1, Len(s) - 1)) + DigitValue(s[Len(s)])

RECURSIVE Pow10(_)
Pow10(n) == IF n = 0 THEN 1 ELSE 10 * Pow10(n - 1)

(* JavaScript numbers: a finite value, NaN, or an infinity. *)
Fin(n) == [k |-> "fin", v |-> n]
NaN == [k |-> "nan", v |-> 0]
PosInf == [k |-> "inf", v |-> 1]
NegInf == [k |-> "inf", v |-> -1]

InfinityLit == <<"I", "n", "f", "i", "n", "i", "t", "y">>

IndexOfExp(s) ==
    IF \E i \in 1..Len(s) : s[i] \in {"e", "E"}
    THEN CHOOSE i \in 1..Len(s) : s[i] \in {"e", "E"} /\ \A j \in 1..(i - 1) : s[j] \notin {"e", "E"}
    ELSE 0

\* An unsigned StrDecimalLiteral without a fraction: digits, or digits e digits.
\* A double holds no value of 1e309 or more: such a literal is Infinity.
UnsignedNumber(t) ==
    LET e == IndexOfExp(t) IN
    IF t = InfinityLit THEN PosInf
    ELSE IF e = 0 THEN (IF AllDigits(t) THEN Fin(DecimalValue(t)) ELSE NaN)
    ELSE LET m == SubSeq(t, 1, e - 1)
             x == SubSeq(t, e + 1, Len(t))
         IN  IF ~(AllDigits(m) /\ AllDigits(x)) THEN NaN
             ELSE IF DecimalValue(m) = 0 THEN Fin(0)
             ELSE IF DecimalValue(x) > 308 THEN PosInf
             ELSE Fin(DecimalValue(m) * Pow10(DecimalValue(x)))

Negate(n) == IF n.k = "nan" THEN NaN ELSE [k |-> n.k, v |-> 0 - n.v]

\* Number(string): whitespace is trimmed, the empty string is 0, a string that
\* is no numeric literal is NaN.
ToNumber(s) ==
    LET t == Trim(s) IN
    IF t = <<>> THEN Fin(0)
    ELSE IF Head(t) = "-" THEN Negate(UnsignedNumber(Tail(t)))
    ELSE IF Head(t) = "+" THEN UnsignedNumber(Tail(t))
    ELSE UnsignedNumber(t)

IsNaN(n) == n.k = "nan"
IsFinite(n) == n.k = "fin"

\* a < b on numbers; every comparison with NaN is false
NumLt(a, b) ==
    /\ ~IsNaN(a) /\ ~IsNaN(b)
    /\ CASE a.k = "fin" /\ b.k = "fin" -> a.v < b.v
         [] a.k = "fin" /\ b.k = "inf" -> b.v > 0
         [] a.k = "inf" /\ b.k = "fin" -> a.v < 0
         [] OTHER -> a.v < b.v

\* a <= b on numbers
NumLe(a, b) == NumLt(a, b) \/ (~IsNaN(a) /\ a = b)

NumTimes(a, n) ==
    CASE a.k = "nan" -> NaN
      [] a.k = "inf" -> a
      [] OTHER -> Fin(a.v * n)

LAMPORTS_PER_SOL == 1000000000


-----------------------------------------------------------------------------
(* The wallet adapter and the ledger RPC, as far as the components see them *)

NoKey == "null"
Keys == {"Alice", "Bob"}

\* The strings new PublicKey(s) accepts; every other string makes it throw.
WellFormedAddresses == {<<"A">>, <<"B">>}
PublicKeyParses(s) == s \in WellFormedAddresses

\* What a rejected promise carries: an Error, or a value that is no Error.
Thrown == {[isError |-> TRUE, message |-> "RPC unavailable"],
           [isError |-> FALSE, message |-> "rejected"]}
NoThrown == [isError |-> FALSE, message |-> ""]
ErrorOf(m) == [isError |-> TRUE, message |-> m]

LamportValues == {0, LAMPORTS_PER_SOL, 2 * LAMPORTS_PER_SOL}
Blockhashes == {"bh1", "bh2"}
Signatures == {"sig1", "sig2"}
\* confirmTransaction resolves with value.err null or set
ConfirmValues == {"err:null", "err:set"}

Pending == [state |-> "pending", num |-> 0, str |-> "", thrown |-> NoThrown]
Fulfilled(n, s) == [state |-> "fulfilled", num |-> n, str |-> s, thrown |-> NoThrown]
Rejected(e) == [state |-> "rejected", num |-> 0, str |-> "", thrown |-> e]

\* The promise a call can settle to
Settlements(call) ==
    {Rejected(e) : e \in Thrown} \cup
    CASE call = "getBalance" -> {Fulfilled(n, "") : n \in LamportValues}
      [] call = "getLatestBlockhash" -> {Fulfilled(0, b) : b \in Blockhashes}
      [] call = "sendTransaction" -> {Fulfilled(0, s) : s \in Signatures}
      [] call = "confirmTransaction" -> {Fulfilled(0, c) : c \in ConfirmValues}

-----------------------------------------------------------------------------
(* SendSol *)

RecipientInputs == {<<>>, <<" ">>, <<"A">>, <<"B">>, <<"A", " ">>, <<"!">>}
AmountInputs == {<<>>, <<" ">>, <<"a">>, <<"0">>, <<"-", "1">>, <<"1">>, <<"2">>,
                 <<"1", "e", "9", "9", "9">>, InfinityLit}

StatusNone == [type |-> "null", message |-> "", amount |-> <<>>, signature |-> ""]
StatusError(m) == [type |-> "error", message |-> m, amount |-> <<>>, signature |-> ""]
\* `Successfully sent ${amount} SOL! Transaction: ${signature.slice(0, 8)}...`
StatusSuccess(a, sig) ==
    [type |-> "success", message |-> "Successfully sent", amount |-> a, signature |-> sig]

NoTransaction == [lamports |-> NaN, toPubkey |-> <<>>, fromPubkey |-> NoKey,
                  recentBlockhash |-> "", feePayer |-> NoKey]

NoLocals == [called |-> FALSE, recipient |-> <<>>, amount |-> <<>>, publicKey |-> NoKey,
             lamports |-> NaN, transaction |-> NoTransaction, blockhash |-> "",
             signature |-> ""]

RpcCall(c, key, tx, sig, commitment) ==
    [call |-> c, key |-> key, transaction |-> tx, signature |-> sig,
     commitment |-> commitment, outcome |-> "pending", result |-> "", resultNum |-> 0]

\* validateInputs: "" when the inputs pass, the message of the first failing check otherwise
ValidateInputs(r, a) ==
    IF Trim(r) = <<>> THEN "Recipient address is required"
    ELSE IF Trim(a) = <<>> \/ IsNaN(ToNumber(a)) \/ NumLe(ToNumber(a), Fin(0))
         THEN "Please enter a valid amount"
    ELSE IF ~PublicKeyParses(r) THEN "Invalid recipient address"
    ELSE ""

\* the closure handleSendSol runs in
Closure == [NoLocals EXCEPT !.called = TRUE, !.recipient = recipient,
                            !.amount = amount, !.publicKey = publicKey]

SetRecipient(r) ==
    /\ connected /\ ~isLoading
    /\ recipient' = r
    /\ UNCHANGED <<amount, isLoading, status, sendPc, sendLocals, sendResp, rpcLog, walletVars, otherVars>>

SetAmount(a) ==
    /\ connected /\ ~isLoading
    /\ amount' = a
    /\ UNCHANGED <<recipient, isLoading, status, sendPc, sendLocals, sendResp, rpcLog, walletVars, otherVars>>

SendWalletConnect(k) ==
    /\ ~connected
    /\ connected' = TRUE /\ publicKey' = k
    /\ UNCHANGED <<sendVars, otherVars>>

SendWalletDisconnect ==
    /\ connected
    /\ connected' = FALSE /\ publicKey' = NoKey
    /\ UNCHANGED <<sendVars, otherVars>>

\* handleSendSol up to its first await
HandleSendSol ==
    /\ sendPc = "idle"
    /\ \/ /\ ~connected \/ publicKey = NoKey
          /\ status' = StatusError("Please connect your wallet first")
          /\ sendLocals' = Closure
          /\ rpcLog' = <<>>
          /\ UNCHANGED <<recipient, amount, isLoading, sendPc, sendResp, walletVars, otherVars>>
       \/ /\ connected /\ publicKey # NoKey
          /\ ValidateInputs(recipient, amount) # ""
          /\ status' = StatusError(ValidateInputs(recipient, amount))
          /\ sendLocals' = Closure
          /\ rpcLog' = <<>>
          /\ UNCHANGED <<recipient, amount, isLoading, sendPc, sendResp, walletVars, otherVars>>
       \/ /\ connected /\ publicKey # NoKey
          /\ ValidateInputs(recipient, amount) = ""
          /\ isLoading' = TRUE
          /\ status' = StatusNone
          /\ sendLocals' = [Closure EXCEPT
                 !.lamports = NumTimes(ToNumber(amount), LAMPORTS_PER_SOL)]
          /\ rpcLog' = <<RpcCall("getBalance", publicKey, NoTransaction, "", "")>>
          /\ sendPc' = "getBalance"
          /\ sendResp' = Pending
          /\ UNCHANGED <<recipient, amount, walletVars, otherVars>>

\* The awaited promise settles.
SendRpcSettle ==
    /\ sendPc # "idle"
    /\ sendResp.state = "pending"
    /\ \E r \in Settlements(sendPc) :
          /\ sendResp' = r
          /\ rpcLog' = [rpcLog EXCEPT ![Len(rpcLog)].outcome = r.state,
                                       ![Len(rpcLog)].result = r.str,
                                       ![Len(rpcLog)].resultNum = r.num]
    /\ UNCHANGED <<recipient, amount, isLoading, status, sendPc, sendLocals, walletVars, otherVars>>

\* error instanceof Error ? error.message : 'Transaction failed'
CatchMessage_AlwaysGeneric(e) == "Transaction failed"

CatchMessage(e) == IF e.isError THEN e.message ELSE "Transaction failed"

\* catch and finally
SendCatch_ResetsForm(e) ==
    /\ status' = StatusError(CatchMessage(e))
    /\ isLoading' = FALSE
    /\ sendPc' = "idle"
    /\ recipient' = <<>> /\ amount' = <<>>
    /\ UNCHANGED <<sendLocals, sendResp, rpcLog, walletVars, otherVars>>

SendCatch_StaysLoading(e) ==
    /\ status' = StatusError(CatchMessage(e))
    /\ sendPc' = "idle"
    /\ UNCHANGED <<recipient, amount, isLoading, sendLocals, sendResp, rpcLog, walletVars, otherVars>>

SendCatch(e) ==
    /\ status' = StatusError(CatchMessage(e))
    /\ isLoading' = FALSE
    /\ sendPc' = "idle"
    /\ UNCHANGED <<recipient, amount, sendLocals, sendResp, rpcLog, walletVars, otherVars>>

\* the next await
SendIssue(call, locals) ==
    /\ sendLocals' = locals
    /\ rpcLog' = Append(rpcLog, call)
    /\ sendPc' = call.call
    /\ sendResp' = Pending
    /\ UNCHANGED <<recipient, amount, isLoading, status, walletVars, otherVars>>

\* what follows the signature: the confirmation at 'confirmed'
AfterSubmit_NoConfirm(sig) ==
    /\ status' = StatusSuccess(sendLocals.amount, sig)
    /\ recipient' = <<>> /\ amount' = <<>>
    /\ isLoading' = FALSE
    /\ sendPc' = "idle"
    /\ sendLocals' = [sendLocals EXCEPT !.signature = sig]
    /\ UNCHANGED <<sendResp, rpcLog, walletVars, otherVars>>

AfterSubmit(sig) ==
    SendIssue(RpcCall("confirmTransaction", NoKey, NoTransaction, sig, "confirmed"),
              [sendLocals EXCEPT !.signature = sig])

\* handleSendSol from the await it is suspended at to the next one, or to its end
SendResume ==
    /\ sendPc # "idle"
    /\ sendResp.state # "pending"
    /\ \/ /\ sendResp.state = "rejected"
          /\ SendCatch(sendResp.thrown)
       \/ /\ sendResp.state = "fulfilled"
          /\ sendPc = "getBalance"
          /\ NumLt(Fin(sendResp.num), sendLocals.lamports)
          /\ SendCatch(ErrorOf("Insufficient balance"))
       \/ /\ sendResp.state = "fulfilled"
          /\ sendPc = "getBalance"
          /\ ~NumLt(Fin(sendResp.num), sendLocals.lamports)
          /\ SendIssue(RpcCall("getLatestBlockhash", NoKey, NoTransaction, "", ""),
                 [sendLocals EXCEPT !.transaction =
                     [NoTransaction EXCEPT !.fromPubkey = sendLocals.publicKey,
                                           !.toPubkey = sendLocals.recipient,
                                           !.lamports = sendLocals.lamports]])
       \/ /\ sendResp.state = "fulfilled"
          /\ sendPc = "getLatestBlockhash"
          /\ LET tx == [sendLocals.transaction EXCEPT
                           !.recentBlockhash = sendResp.str,
                           !.feePayer = sendLocals.publicKey]
             IN  SendIssue(RpcCall("sendTransaction", NoKey, tx, "", ""),
                     [sendLocals EXCEPT !.blockhash = sendResp.str, !.transaction = tx])
       \/ /\ sendResp.state = "fulfilled"
          /\ sendPc = "sendTransaction"
          /\ AfterSubmit(sendResp.str)
       \/ /\ sendResp.state = "fulfilled"
          /\ sendPc = "confirmTransaction"
          /\ status' = StatusSuccess(sendLocals.amount, sendLocals.signature)
          /\ recipient' = <<>> /\ amount' = <<>>
          /\ isLoading' = FALSE
          /\ sendPc' = "idle"
          /\ UNCHANGED <<sendLocals, sendResp, rpcLog, walletVars, otherVars>>

SendInit ==
    /\ recipient = <<>> /\ amount = <<>>
    /\ isLoading = FALSE
    /\ status = StatusNone
    /\ sendPc = "idle"
    /\ sendLocals = NoLocals
    /\ sendResp = Pending
    /\ rpcLog = <<>>

WalletInit == connected = FALSE /\ publicKey = NoKey

-----------------------------------------------------------------------------
(* BalanceDisplay *)

MaxInFlight == 2
MaxTimers == 2

Intervals == {30000, 60000}
BdLamportValues == {0, LAMPORTS_PER_SOL}
BdThrown == [isError |-> TRUE, message |-> "RPC unavailable"]

\* lamports / LAMPORTS_PER_SOL: the whole SOL and the nine decimals after the point
SolOf(lamports) ==
    [isNull |-> FALSE, whole |-> lamports \div LAMPORTS_PER_SOL,
     nano |-> lamports % LAMPORTS_PER_SOL]
NoBalance == [isNull |-> TRUE, whole |-> 0, nano |-> 0]
NoError == "null"

RemoveAt(q, i) == SubSeq(q, 1, i - 1) \o SubSeq(q, i + 1, Len(q))

\* fetchBalance up to its await, in the closure of a render with wallet (key, conn)
FetchBalance(key, conn, origin) ==
    IF key = NoKey \/ ~conn
    THEN /\ balance' = NoBalance
         /\ bdError' = NoError
         /\ UNCHANGED <<bdLoading, bdInflight>>
    ELSE /\ Len(bdInflight) < MaxInFlight
         /\ bdLoading' = TRUE
         /\ bdError' = NoError
         /\ bdInflight' = Append(bdInflight, [origin |-> origin, key |-> key, resp |-> Pending])
         /\ UNCHANGED balance

FreeHandle(ts) == CHOOSE h \in 1..MaxTimers : h \notin {t.handle : t \in ts}
                     /\ \A g \in 1..(h - 1) : g \in {t.handle : t \in ts}

NewTimer(ts, ri, conn, key) ==
    [handle |-> FreeHandle(ts), interval |-> ri, connected |-> conn, key |-> key]

\* the auto-refresh effect on a change of its dependencies: the cleanup of the
\* previous run, then the effect with the new values
TimersAfterEffect_NoCleanup(ts, ar, ri, conn, key) ==
    IF ~ar \/ ~conn THEN ts
    ELSE ts \cup {NewTimer(ts, ri, conn, key)}

TimersAfterEffect(ts, ar, ri, conn, key) ==
    IF ~ar \/ ~conn THEN {}
    ELSE {NewTimer({}, ri, conn, key)}

\* room for the interval the effect may set
TimerRoom == Cardinality(timers) < MaxTimers

BdMount(ar, ri) ==
    /\ mounted = "no"
    /\ mounted' = "yes"
    /\ autoRefresh' = ar /\ refreshInterval' = ri
    /\ FetchBalance(publicKey, connected, "effect")
    /\ timers' = TimersAfterEffect(timers, ar, ri, connected, publicKey)
    /\ UNCHANGED <<walletVars, notBd>>

BdUnmount ==
    /\ mounted = "yes"
    /\ mounted' = "gone"
    /\ timers' = {}
    /\ UNCHANGED <<autoRefresh, refreshInterval, balance, bdLoading, bdError, bdInflight,
                   walletVars, notBd>>

\* a change of the wallet, with the effects it triggers in a mounted component
BdWalletChange(conn, key) ==
    /\ connected' = conn /\ publicKey' = key
    /\ IF mounted = "yes"
       THEN /\ TimerRoom
            /\ FetchBalance(key, conn, "effect")
            /\ timers' = TimersAfterEffect(timers, autoRefresh, refreshInterval, conn, key)
       ELSE UNCHANGED <<balance, bdLoading, bdError, bdInflight, timers>>
    /\ UNCHANGED <<mounted, autoRefresh, refreshInterval, notBd>>

BdWalletConnect(k) == ~connected /\ BdWalletChange(TRUE, k)

BdWalletDisconnect == connected /\ BdWalletChange(FALSE, NoKey)

BdWalletSwitch(k) == connected /\ k # publicKey /\ BdWalletChange(TRUE, k)

\* the parent renders the component with other props
BdSetProps(ar, ri) ==
    /\ mounted = "yes"
    /\ <<ar, ri>> # <<autoRefresh, refreshInterval>>
    /\ TimerRoom
    /\ autoRefresh' = ar /\ refreshInterval' = ri
    /\ timers' = TimersAfterEffect(timers, ar, ri, connected, publicKey)
    /\ UNCHANGED <<mounted, balance, bdLoading, bdError, bdInflight, walletVars, notBd>>

\* an interval of timer t elapses: its callback is the fetchBalance of the render
\* that set it
BdTimerFire(t) ==
    /\ t \in timers
    /\ FetchBalance(t.key, t.connected, "timer")
    /\ UNCHANGED <<mounted, autoRefresh, refreshInterval, timers, walletVars, notBd>>

\* the refresh button: rendered when connected, disabled while loading
BdClickRefresh ==
    /\ mounted = "yes"
    /\ connected
    /\ ~bdLoading
    /\ FetchBalance(publicKey, connected, "manual")
    /\ UNCHANGED <<mounted, autoRefresh, refreshInterval, timers, walletVars, notBd>>

\* connection.getBalance of fetch i settles
BdRpcSettle(i) ==
    /\ i \in 1..Len(bdInflight)
    /\ bdInflight[i].resp.state = "pending"
    /\ \E r \in {Rejected(BdThrown)} \cup {Fulfilled(n, "") : n \in BdLamportValues} :
          bdInflight' = [bdInflight EXCEPT ![i].resp = r]
    /\ UNCHANGED <<mounted, autoRefresh, refreshInterval, balance, bdLoading, bdError,
                   timers, walletVars, notBd>>

\* fetchBalance i from its await to its end; the state of an unmounted component
\* is no longer written
BdResume_Fenced(i) ==
    /\ i \in 1..Len(bdInflight)
    /\ bdInflight[i].resp.state # "pending"
    /\ bdInflight' = RemoveAt(bdInflight, i)
    /\ IF mounted # "yes"
       THEN UNCHANGED <<balance, bdLoading, bdError>>
       ELSE /\ bdLoading' = FALSE
            /\ IF bdInflight[i].resp.state = "fulfilled"
               THEN /\ balance' = IF i = Len(bdInflight)
                                  THEN SolOf(bdInflight[i].resp.num) ELSE balance
                    /\ UNCHANGED bdError
               ELSE /\ bdError' = "Failed to fetch balance"
                    /\ UNCHANGED balance
    /\ UNCHANGED <<mounted, autoRefresh, refreshInterval, timers, walletVars, notBd>>

BdResume(i) ==
    /\ i \in 1..Len(bdInflight)
    /\ bdInflight[i].resp.state # "pending"
    /\ bdInflight' = RemoveAt(bdInflight, i)
    /\ IF mounted # "yes"
       THEN UNCHANGED <<balance, bdLoading, bdError>>
       ELSE /\ bdLoading' = FALSE
            /\ IF bdInflight[i].resp.state = "fulfilled"
               THEN /\ balance' = SolOf(bdInflight[i].resp.num)
                    /\ UNCHANGED bdError
               ELSE /\ bdError' = "Failed to fetch balance"
                    /\ UNCHANGED balance
    /\ UNCHANGED <<mounted, autoRefresh, refreshInterval, timers, walletVars, notBd>>

BdInit ==
    /\ mounted = "no"
    /\ autoRefresh = FALSE
    /\ refreshInterval = 30000
    /\ balance = NoBalance
    /\ bdLoading = FALSE
    /\ bdError = NoError
    /\ bdInflight = <<>>
    /\ timers = {}

-----------------------------------------------------------------------------
-----------------------------------------------------------------------------
(* TransactionList *)

Limit == 2
MaxTxInFlight == 2

\* the entries getSignaturesForAddress can answer with, newest first
SigInfos == <<[signature |-> "s1", slot |-> 11, blockTime |-> 1001],
              [signature |-> "s2", slot |-> 12, blockTime |-> 1002]>>

StakeProgram == <<"S", "t", "a", "k", "e", "1">>
SystemProgramId == <<"1", "1">>

NoMeta == [isNull |-> TRUE, preBalances |-> <<>>, postBalances |-> <<>>, fee |-> 0,
           preTokenBalances |-> 0, postTokenBalances |-> 0, err |-> FALSE]
Meta(pre, post, fee, preTok, postTok, err) ==
    [isNull |-> FALSE, preBalances |-> pre, postBalances |-> post, fee |-> fee,
     preTokenBalances |-> preTok, postTokenBalances |-> postTok, err |-> err]

NullTx == [isNull |-> TRUE, signature |-> "", meta |-> NoMeta, instructions |-> <<>>]
ParsedTx(sig, meta, instructions) ==
    [isNull |-> FALSE, signature |-> sig, meta |-> meta, instructions |-> instructions]

\* the ledger's transaction of each signature
LedgerTx(sig) ==
    IF sig = "s1"
    THEN ParsedTx("s1", Meta(<<10>>, <<15>>, 0, 0, 0, FALSE), <<SystemProgramId>>)
    ELSE ParsedTx("s2", Meta(<<20>>, <<5>>, 5, 0, 0, TRUE), <<SystemProgramId>>)

\* String.prototype.includes
StakeMarker == <<"S", "t", "a", "k", "e">>

RECURSIVE StartsWith(_, _)
StartsWith(s, m) ==
    IF m = <<>> THEN TRUE
    ELSE IF s = <<>> THEN FALSE
    ELSE Head(s) = Head(m) /\ StartsWith(Tail(s), Tail(m))

RECURSIVE Includes(_, _)
Includes(s, m) ==
    IF StartsWith(s, m) THEN TRUE
    ELSE IF s = <<>> THEN FALSE
    ELSE Includes(Tail(s), m)

Abs(n) == IF n < 0 THEN 0 - n ELSE n

\* meta?.preBalances[0] || 0
FirstOrZero(q) == IF q = <<>> THEN 0 ELSE q[1]

\* the type of a record: sign of the balance change, then token balances, then
\* stake instructions, each overriding what was set before
TransactionType_SwapOverStake(balanceChange, tokenTransfers, hasStakeInstruction) ==
    IF tokenTransfers > 0 THEN "swap"
    ELSE IF hasStakeInstruction THEN "stake"
    ELSE IF balanceChange > 0 THEN "received"
    ELSE IF balanceChange < 0 THEN "sent"
    ELSE "unknown"

TransactionType(balanceChange, tokenTransfers, hasStakeInstruction) ==
    LET bySign == IF balanceChange > 0 THEN "received"
                  ELSE IF balanceChange < 0 THEN "sent" ELSE "unknown"
        byToken == IF tokenTransfers > 0 THEN "swap" ELSE bySign
    IN  IF hasStakeInstruction THEN "stake" ELSE byToken

\* the callback of .map: the record of transaction tx, with the entry of the
\* signature list it is paired with
ParseTransaction(signature, tx, key) ==
    LET meta == tx.meta
        preBalance == IF meta.isNull THEN 0 ELSE FirstOrZero(meta.preBalances)
        postBalance == IF meta.isNull THEN 0 ELSE FirstOrZero(meta.postBalances)
        balanceChange == postBalance - preBalance
        fee == IF meta.isNull THEN 0 ELSE meta.fee
        tokenTransfers == IF meta.isNull THEN 0 ELSE meta.preTokenBalances
        hasStakeInstruction ==
            \E i \in 1..Len(tx.instructions) : Includes(tx.instructions[i], StakeMarker)
    IN  [signature |-> signature.signature,
         slot |-> signature.slot,
         blockTime |-> signature.blockTime,
         fee |-> SolOf(fee),
         status |-> IF ~meta.isNull /\ meta.err THEN "failed" ELSE "success",
         type |-> TransactionType(balanceChange, tokenTransfers, hasStakeInstruction),
         amount |-> IF balanceChange < 0 THEN SolOf(Abs(balanceChange + fee))
                    ELSE SolOf(Abs(balanceChange)),
         token |-> IF tokenTransfers > 0 THEN "TOKEN" ELSE "SOL",
         from |-> key,
         to |-> "Unknown"]

NotNull(tx) == ~tx.isNull

\* txs.filter(tx => tx !== null).map((tx, index) => ... signatures[index] ...)
ParsedTransactions(signatures, txs, key) ==
    LET kept == SelectSeq(txs, NotNull)
    IN  [index \in 1..Len(kept) |-> ParseTransaction(signatures[index], kept[index], key)]

TxPending == [state |-> "pending", list |-> <<>>]
TxFulfilled(l) == [state |-> "fulfilled", list |-> l]
TxRejected == [state |-> "rejected", list |-> <<>>]

\* getSignaturesForAddress(publicKey, {limit}): at most limit entries, newest first
SignatureLists ==
    {q \in UNION {[1..n -> 1..Len(SigInfos)] : n \in 0..Limit} :
        \A i \in 1..Len(q) : \A j \in 1..Len(q) : i < j => q[i] < q[j]}
SignatureAnswers == {[i \in 1..Len(q) |-> SigInfos[q[i]]] : q \in SignatureLists}

\* getParsedTransactions(signatures): for each signature its transaction, or null
TransactionAnswers(sigs) ==
    {l \in [1..Len(sigs) -> {NullTx} \cup {LedgerTx(SigInfos[i].signature) : i \in 1..Len(SigInfos)}] :
        \A i \in 1..Len(sigs) : l[i] \in {NullTx, LedgerTx(sigs[i].signature)}}

\* fetchTransactions up to its first await, in the closure of a render with wallet (key, conn)
FetchTransactions(key, conn) ==
    IF key = NoKey \/ ~conn
    THEN UNCHANGED txVars
    ELSE /\ Len(txInflight) < MaxTxInFlight
         /\ txLoading' = TRUE
         /\ txError' = NoError
         /\ txInflight' = Append(txInflight,
                [key |-> key, pc |-> "getSignaturesForAddress", signatures |-> <<>>,
                 resp |-> TxPending])
         /\ UNCHANGED transactions

\* a change of the wallet, with the effect it triggers
TxWalletChange(conn, key) ==
    /\ connected' = conn /\ publicKey' = key
    /\ FetchTransactions(key, conn)
    /\ UNCHANGED notTx

TxWalletConnect(k) == ~connected /\ TxWalletChange(TRUE, k)

TxWalletDisconnect == connected /\ TxWalletChange(FALSE, NoKey)

TxWalletSwitch(k) == connected /\ k # publicKey /\ TxWalletChange(TRUE, k)

\* the Refresh button: rendered when connected, disabled while loading
TxClickRefresh ==
    /\ connected
    /\ ~txLoading
    /\ FetchTransactions(publicKey, connected)
    /\ UNCHANGED <<walletVars, notTx>>

\* the call fetch i awaits settles
TxRpcSettle(i) ==
    /\ i \in 1..Len(txInflight)
    /\ txInflight[i].resp.state = "pending"
    /\ \E r \in {TxRejected} \cup
              (IF txInflight[i].pc = "getSignaturesForAddress"
               THEN {TxFulfilled(l) : l \in SignatureAnswers}
               ELSE {TxFulfilled(l) : l \in TransactionAnswers(txInflight[i].signatures)}) :
          txInflight' = [txInflight EXCEPT ![i].resp = r]
    /\ UNCHANGED <<transactions, txLoading, txError, walletVars, notTx>>

\* catch and finally of fetch i
TxCatch_ClearsList(i) ==
    /\ txError' = "Failed to fetch transactions"
    /\ txLoading' = FALSE
    /\ transactions' = <<>>
    /\ txInflight' = RemoveAt(txInflight, i)

TxCatch(i) ==
    /\ txError' = "Failed to fetch transactions"
    /\ txLoading' = FALSE
    /\ txInflight' = RemoveAt(txInflight, i)
    /\ UNCHANGED transactions

\* fetchTransactions i from the await it is suspended at to the next, or to its end
TxResume(i) ==
    /\ i \in 1..Len(txInflight)
    /\ txInflight[i].resp.state # "pending"
    /\ \/ /\ txInflight[i].resp.state = "rejected"
          /\ TxCatch(i)
       \/ /\ txInflight[i].resp.state = "fulfilled"
          /\ txInflight[i].pc = "getSignaturesForAddress"
          /\ txInflight' = [txInflight EXCEPT
                 ![i].pc = "getParsedTransactions",
                 ![i].signatures = txInflight[i].resp.list,
                 ![i].resp = TxPending]
          /\ UNCHANGED <<transactions, txLoading, txError>>
       \/ /\ txInflight[i].resp.state = "fulfilled"
          /\ txInflight[i].pc = "getParsedTransactions"
          /\ transactions' = ParsedTransactions(txInflight[i].signatures,
                                  txInflight[i].resp.list, txInflight[i].key)
          /\ txLoading' = FALSE
          /\ txInflight' = RemoveAt(txInflight, i)
          /\ UNCHANGED txError
    /\ UNCHANGED <<walletVars, notTx>>

TxInit ==
    /\ transactions = <<>>
    /\ txLoading = FALSE
    /\ txError = NoError
    /\ txInflight = <<>>

-----------------------------------------------------------------------------
(* The record of one transaction, for every transaction *)

ProgramIds == {SystemProgramId, StakeProgram, <<"x", "S", "t", "a", "k", "e">>,
               <<"S", "t", "a", "k">>, <<"s", "t", "a", "k", "e">>}
InstructionLists == {<<>>} \cup {<<p>> : p \in ProgramIds}
                        \cup {<<p, q>> : p \in ProgramIds, q \in ProgramIds}
BalanceLists == {<<>>, <<5>>, <<10>>, <<15>>}
Fees == {0, 5, 10}
Metas == {NoMeta} \cup
         {Meta(pre, post, fee, preTok, postTok, err) :
             pre \in {<<>>, <<10>>}, post \in BalanceLists, fee \in Fees,
             preTok \in {0, 1}, postTok \in {0, 1}, err \in BOOLEAN}
ParseInputs ==
    {[signature |-> SigInfos[1], tx |-> ParsedTx("s1", m, l), key |-> "Alice"] :
        m \in Metas, l \in InstructionLists}

NoParseIn == [signature |-> SigInfos[1], tx |-> NullTx, key |-> NoKey]
NoParseOut == [signature |-> "none"]

ParseInit == parseIn = NoParseIn /\ parseOut = NoParseOut

ChooseParseInput ==
    /\ parseIn = NoParseIn
    /\ parseIn' \in ParseInputs
    /\ UNCHANGED <<parseOut, walletVars, sendVars, bdVars, txVars, svcVars, utilVars, dbVars>>

ApplyParseTransaction ==
    /\ parseIn # NoParseIn
    /\ parseOut = NoParseOut
    /\ parseOut' = ParseTransaction(parseIn.signature, parseIn.tx, parseIn.key)
    /\ UNCHANGED <<parseIn, walletVars, sendVars, bdVars, txVars, svcVars, utilVars, dbVars>>

-----------------------------------------------------------------------------
(* SolanaService *)

SvcMethods == {"getBalance", "getAccountInfo", "sendTransaction", "transferSol",
               "getRecentBlockhash", "getTransactionHistory", "getSlot", "getEpochInfo"}

\* the Error each method's catch block raises
GenericError(m) ==
    CASE m = "getBalance" -> "Failed to fetch balance"
      [] m = "getAccountInfo" -> "Failed to fetch account info"
      [] m = "sendTransaction" -> "Failed to send transaction"
      [] m = "transferSol" -> "Failed to transfer SOL"
      [] m = "getRecentBlockhash" -> "Failed to fetch recent blockhash"
      [] m = "getTransactionHistory" -> "Failed to fetch transaction history"
      [] m = "getSlot" -> "Failed to fetch slot"
      [] m = "getEpochInfo" -> "Failed to fetch epoch info"

\* the first call a method makes on this.connection
FirstCall(m) ==
    CASE m = "getBalance" -> "getBalance"
      [] m = "getAccountInfo" -> "getAccountInfo"
      [] m = "sendTransaction" -> "sendTransaction"
      [] m = "transferSol" -> "sendTransaction"
      [] m = "getRecentBlockhash" -> "getLatestBlockhash"
      [] m = "getTransactionHistory" -> "getSignaturesForAddress"
      [] m = "getSlot" -> "getSlot"
      [] m = "getEpochInfo" -> "getEpochInfo"

SvcCall(name, arg) == [name |-> name, arg |-> arg, state |-> "pending", value |-> <<>>,
                       cause |-> ""]

\* what a call on the connection can resolve with (a one-element list, or the
\* list of signature entries)
SvcAnswers(c) ==
    CASE c.name = "getBalance" -> {<<n>> : n \in BdLamportValues}
      [] c.name = "getAccountInfo" -> {<<"account">>, <<"null">>}
      [] c.name = "sendTransaction" -> {<<sig>> : sig \in Signatures}
      [] c.name = "confirmTransaction" -> {<<v>> : v \in ConfirmValues}
      [] c.name = "getLatestBlockhash" -> {<<b>> : b \in Blockhashes}
      [] c.name = "getSignaturesForAddress" -> SignatureAnswers
      [] c.name = "getTransaction" -> {<<"null">>, <<c.arg>>}
      [] c.name = "getSlot" -> {<<7>>}
      [] c.name = "getEpochInfo" -> {<<"epoch">>}

SvcIdle == svcState # "running"

\* catch: log the error, raise the method's own
SvcCatch_RethrowsCause(cause) ==
    /\ svcState' = "threw"
    /\ svcThrown' = cause
    /\ svcReturn' = <<>>
    /\ UNCHANGED <<svcMethod, svcPc, svcCalls>>

SvcCatch(cause) ==
    /\ svcState' = "threw"
    /\ svcThrown' = GenericError(svcMethod)
    /\ svcReturn' = <<>>
    /\ UNCHANGED <<svcMethod, svcPc, svcCalls>>

SvcReturns(v) ==
    /\ svcState' = "returned"
    /\ svcReturn' = v
    /\ UNCHANGED <<svcMethod, svcPc, svcCalls, svcThrown>>

\* a method is called; it runs to its first await (transferSol first builds the
\* transaction, which throws for lamports that are no integer)
SvcInvoke(m, lamportsIsInteger) ==
    /\ SvcIdle
    /\ svcMethod' = m
    /\ svcReturn' = <<>>
    /\ IF m = "transferSol" /\ ~lamportsIsInteger
       THEN /\ svcState' = "threw"
            /\ svcThrown' = GenericError(m)
            /\ svcCalls' = <<>>
            /\ svcPc' = 0
       ELSE /\ svcState' = "running"
            /\ svcThrown' = ""
            /\ svcCalls' = <<SvcCall(FirstCall(m), "arg")>>
            /\ svcPc' = 1
    /\ UNCHANGED <<walletVars, sendVars, bdVars, txVars, parseVars, utilVars, dbVars>>

\* a call on the connection settles
SvcSettle(i) ==
    /\ i \in 1..Len(svcCalls)
    /\ svcCalls[i].state = "pending"
    /\ \/ \E v \in SvcAnswers(svcCalls[i]) :
             svcCalls' = [svcCalls EXCEPT ![i].state = "fulfilled", ![i].value = v]
       \/ svcCalls' = [svcCalls EXCEPT ![i].state = "rejected", ![i].cause = "RPC unavailable"]
    /\ UNCHANGED <<svcMethod, svcState, svcPc, svcReturn, svcThrown,
                   walletVars, sendVars, bdVars, txVars, parseVars, utilVars, dbVars>>

\* the lookups of Promise.all: the calls after the first
Lookups == SubSeq(svcCalls, 2, Len(svcCalls))

\* the method from the await it is suspended at to the next, or to its end
SvcResume ==
    /\ svcState = "running"
    /\ \/ \* a single awaited call was rejected
          /\ svcPc \in {1, 2}
          /\ svcCalls[svcPc].state = "rejected"
          /\ SvcCatch(svcCalls[svcPc].cause)
       \/ \* the one call of a one-call method resolved
          /\ svcPc = 1
          /\ svcCalls[1].state = "fulfilled"
          /\ svcMethod \in {"getAccountInfo", "getRecentBlockhash", "getSlot", "getEpochInfo"}
          /\ SvcReturns(svcCalls[1].value)
       \/ /\ svcPc = 1
          /\ svcCalls[1].state = "fulfilled"
          /\ svcMethod = "getBalance"
          /\ SvcReturns(<<SolOf(svcCalls[1].value[1])>>)
       \/ \* the signature is confirmed next
          /\ svcPc = 1
          /\ svcCalls[1].state = "fulfilled"
          /\ svcMethod \in {"sendTransaction", "transferSol"}
          /\ svcCalls' = Append(svcCalls, SvcCall("confirmTransaction", svcCalls[1].value[1]))
          /\ svcPc' = 2
          /\ UNCHANGED <<svcMethod, svcState, svcReturn, svcThrown>>
       \/ /\ svcPc = 2
          /\ svcCalls[2].state = "fulfilled"
          /\ SvcReturns(svcCalls[1].value)
       \/ \* every signature is looked up, all lookups started at once
          /\ svcPc = 1
          /\ svcCalls[1].state = "fulfilled"
          /\ svcMethod = "getTransactionHistory"
          /\ svcCalls' = svcCalls \o
                 [i \in 1..Len(svcCalls[1].value) |->
                     SvcCall("getTransaction", svcCalls[1].value[i].signature)]
          /\ svcPc' = 3
          /\ UNCHANGED <<svcMethod, svcState, svcReturn, svcThrown>>
       \/ \* Promise.all rejects as soon as one lookup is rejected
          /\ svcPc = 3
          /\ \E i \in 1..Len(Lookups) :
                /\ Lookups[i].state = "rejected"
                /\ SvcCatch(Lookups[i].cause)
       \/ \* Promise.all resolves when every lookup has
          /\ svcPc = 3
          /\ \A i \in 1..Len(Lookups) : Lookups[i].state = "fulfilled"
          /\ SvcReturns([i \in 1..Len(Lookups) |->
                 [signature |-> svcCalls[1].value[i].signature,
                  slot |-> svcCalls[1].value[i].slot,
                  blockTime |-> svcCalls[1].value[i].blockTime,
                  transaction |-> Lookups[i].value[1]]])
    /\ UNCHANGED <<walletVars, sendVars, bdVars, txVars, parseVars, utilVars, dbVars>>

SvcInit ==
    /\ svcMethod = "none"
    /\ svcState = "idle"
    /\ svcPc = 0
    /\ svcCalls = <<>>
    /\ svcReturn = <<>>
    /\ svcThrown = ""

-----------------------------------------------------------------------------
(* The explorer links *)

ExplorerBase == <<"h", "t", "t", "p", "s", ":", "/", "/", "e", "x", "p", "l", "o", "r",
                  "e", "r", ".", "s", "o", "l", "a", "n", "a", ".", "c", "o", "m">>
ClusterQuery == <<"?", "c", "l", "u", "s", "t", "e", "r", "=">>
TxPath == <<"/", "t", "x", "/">>
AccountPath == <<"/", "a", "c", "c", "o", "u", "n", "t", "/">>

MainnetBeta == <<"m", "a", "i", "n", "n", "e", "t", "-", "b", "e", "t", "a">>
Devnet == <<"d", "e", "v", "n", "e", "t">>
Testnet == <<"t", "e", "s", "t", "n", "e", "t">>
Clusters == {MainnetBeta, Devnet, Testnet}

\* cluster === "mainnet-beta" ? "https://explorer.solana.com"
\*                            : `https://explorer.solana.com?cluster=${cluster}`
BaseUrl(cluster) ==
    IF cluster = MainnetBeta THEN ExplorerBase
    ELSE ExplorerBase \o ClusterQuery \o cluster

\* `${baseUrl}/tx/${signature}`
GetExplorerUrl(signature, cluster) == BaseUrl(cluster) \o TxPath \o signature

\* `${baseUrl}/account/${address}`
GetAccountExplorerUrl(address, cluster) == BaseUrl(cluster) \o AccountPath \o address

-----------------------------------------------------------------------------
(* Truncation of addresses and signatures *)

Min(a, b) == IF a < b THEN a ELSE b
Max(a, b) == IF a > b THEN a ELSE b

\* String.prototype.slice(start, end): a negative index counts from the end
RelativeIndex(i, len) == IF i < 0 THEN Max(len + i, 0) ELSE Min(i, len)

Slice(s, start, end) ==
    LET from == RelativeIndex(start, Len(s))
        to == RelativeIndex(end, Len(s))
    IN  IF from < to THEN SubSeq(s, from + 1, to) ELSE <<>>

\* slice(start)
SliceFrom(s, start) == Slice(s, start, Len(s))

Ellipsis == <<".", ".", ".">>

Undefined == -1
\* a parameter with a default value
OrDefault(arg, default) == IF arg = Undefined THEN default ELSE arg

FormatAddress_NoEmptyGuard(address, chars) ==
    LET n == OrDefault(chars, 4)
    IN  Slice(address, 0, n) \o Ellipsis \o SliceFrom(address, 0 - n)

FormatAddress(address, chars) ==
    LET n == OrDefault(chars, 4)
    IN  IF address = <<>> THEN <<>>
        ELSE Slice(address, 0, n) \o Ellipsis \o SliceFrom(address, 0 - n)

FormatPublicKey(pubkey, chars) ==
    LET n == OrDefault(chars, 4)
    IN  IF pubkey = <<>> THEN <<>>
        ELSE Slice(pubkey, 0, n) \o Ellipsis \o SliceFrom(pubkey, 0 - n)

ShortenSignature(signature, chars) ==
    LET n == OrDefault(chars, 8)
    IN  IF signature = <<>> THEN <<>>
        ELSE Slice(signature, 0, n) \o Ellipsis \o SliceFrom(signature, 0 - n)

-----------------------------------------------------------------------------
(* The balance as text *)

\* Number.prototype.toFixed(digits) of lamports / LAMPORTS_PER_SOL: the nearest
\* number with that many decimals, as <whole>.<frac>; a value halfway between
\* two of them in decimal goes where its binary value lies, up or down
ToFixed(lamports, digits) ==
    LET unit == Pow10(9 - digits)
        down == lamports \div unit
        rest == lamports % unit
        scaled == IF 2 * rest < unit THEN {down}
                  ELSE IF 2 * rest > unit THEN {down + 1}
                  ELSE {down, down + 1}
    IN  {[whole |-> q \div Pow10(digits), frac |-> q % Pow10(digits), digits |-> digits] :
            q \in scaled}

\* formatBalance(lamports / LAMPORTS_PER_SOL)
FormatBalance_NoZeroCase(lamports) ==
    IF lamports < 1000000 THEN ToFixed(lamports, 6)
    ELSE IF lamports < LAMPORTS_PER_SOL THEN ToFixed(lamports, 4)
    ELSE ToFixed(lamports, 2)

FormatBalance(lamports) ==
    IF lamports = 0 THEN {[whole |-> 0, frac |-> 0, digits |-> 2]}
    ELSE IF lamports < 1000000 THEN ToFixed(lamports, 6)
    ELSE IF lamports < LAMPORTS_PER_SOL THEN ToFixed(lamports, 4)
    ELSE ToFixed(lamports, 2)

-----------------------------------------------------------------------------
(* The helpers, each applied to every input *)

\* signatures and addresses are base58: no '?', no '/'
UrlSubjects == {<<>>, <<"5">>, <<"5", "h">>, <<"A", "b", "c">>, <<"t", "x">>}

NoUtilIn == [fn |-> "none"]
NoUtilOut == [state |-> "none"]
Returned(v) == [state |-> "returned", value |-> v]

ExplorerInputs ==
    {[fn |-> f, subject |-> x, cluster |-> c] :
        f \in {"getExplorerUrl", "getAccountExplorerUrl"}, x \in UrlSubjects, c \in Clusters}

TruncateSubjects == {<<>>, <<"A">>, <<"A", "B">>, <<"A", "B", "C">>,
                     <<"A", "B", "C", "D", "E">>,
                     <<"A", "B", "C", "D", "E", "F", "G", "H">>,
                     <<"A", "B", "C", "D", "E", "F", "G", "H", "I", "J">>}
CharCounts == {Undefined, 0, 1, 2, 4, 8}

TruncateInputs ==
    {[fn |-> f, subject |-> x, chars |-> n] :
        f \in {"formatAddress", "formatPublicKey", "shortenSignature"},
        x \in TruncateSubjects, n \in CharCounts}

\* balances, in lamports
BalanceInputs ==
    {[fn |-> "formatBalance", lamports |-> n] :
        n \in {0, 1, 499, 500, 501, 500000, 999999, 1000000, 1000001, 50000,
               500000000, 999949999, 999950000, 999999999, LAMPORTS_PER_SOL,
               1005000000, 2 * LAMPORTS_PER_SOL}}

UtilInputs == ExplorerInputs \cup TruncateInputs \cup BalanceInputs

\* what the helper returns (formatBalance: one of)
UtilApply(in) ==
    CASE in.fn = "getExplorerUrl" -> {Returned(GetExplorerUrl(in.subject, in.cluster))}
      [] in.fn = "getAccountExplorerUrl" ->
            {Returned(GetAccountExplorerUrl(in.subject, in.cluster))}
      [] in.fn = "formatAddress" -> {Returned(FormatAddress(in.subject, in.chars))}
      [] in.fn = "formatPublicKey" -> {Returned(FormatPublicKey(in.subject, in.chars))}
      [] in.fn = "shortenSignature" -> {Returned(ShortenSignature(in.subject, in.chars))}
      [] in.fn = "formatBalance" -> {Returned(t) : t \in FormatBalance(in.lamports)}

UtilInit == utilIn = NoUtilIn /\ utilOut = NoUtilOut

ChooseUtilInput ==
    /\ utilIn = NoUtilIn
    /\ utilIn' \in UtilInputs
    /\ UNCHANGED <<utilOut, walletVars, sendVars, bdVars, txVars, parseVars, svcVars, dbVars>>

ApplyUtil ==
    /\ utilIn # NoUtilIn
    /\ utilOut = NoUtilOut
    /\ utilOut' \in UtilApply(utilIn)
    /\ UNCHANGED <<utilIn, walletVars, sendVars, bdVars, txVars, parseVars, svcVars, dbVars>>

NextUtil == ChooseUtilInput \/ ApplyUtil

-----------------------------------------------------------------------------
(* debounce *)

MaxTime == 4
MaxCalls == 3

Waits == {0, 1, 2}
DbArgs == {"a", "b"}

\* debounce(func, wait): the function returned, with its variable timeout
Debounce(wait) ==
    /\ dbWait = -1
    /\ dbWait' = wait
    /\ UNCHANGED <<dbNow, dbTimeout, dbTimers, dbCalls, dbInvoked,
                   walletVars, sendVars, bdVars, txVars, parseVars, svcVars, utilVars>>

\* clearTimeout(handle): nothing happens for a handle that is not pending
ClearTimeout(ts, handle) == {t \in ts : t.handle # handle}

\* a call of the returned function: clearTimeout(timeout), then
\* timeout = setTimeout(() => func(...args), wait)
DbCall_NoClear(args) ==
    /\ dbWait >= 0
    /\ Len(dbCalls) < MaxCalls
    /\ LET handle == Len(dbCalls) + 1
       IN  /\ dbTimers' = dbTimers \cup
                   {[handle |-> handle, due |-> dbNow + dbWait, args |-> args]}
           /\ dbTimeout' = handle
    /\ dbCalls' = Append(dbCalls, [at |-> dbNow, args |-> args])
    /\ UNCHANGED <<dbWait, dbNow, dbInvoked,
                   walletVars, sendVars, bdVars, txVars, parseVars, svcVars, utilVars>>

DbCall(args) ==
    /\ dbWait >= 0
    /\ Len(dbCalls) < MaxCalls
    /\ LET handle == Len(dbCalls) + 1
       IN  /\ dbTimers' = ClearTimeout(dbTimers, dbTimeout) \cup
                   {[handle |-> handle, due |-> dbNow + dbWait, args |-> args]}
           /\ dbTimeout' = handle
    /\ dbCalls' = Append(dbCalls, [at |-> dbNow, args |-> args])
    /\ UNCHANGED <<dbWait, dbNow, dbInvoked,
                   walletVars, sendVars, bdVars, txVars, parseVars, svcVars, utilVars>>

\* the callback of timer t runs, no sooner than the delay it was set with
DbTimerRun(t) ==
    /\ t \in dbTimers
    /\ dbNow >= t.due
    /\ dbInvoked' = Append(dbInvoked, [at |-> dbNow, args |-> t.args, handle |-> t.handle])
    /\ dbTimers' = dbTimers \ {t}
    /\ UNCHANGED <<dbWait, dbNow, dbTimeout, dbCalls,
                   walletVars, sendVars, bdVars, txVars, parseVars, svcVars, utilVars>>

\* time passes
DbTick ==
    /\ dbNow < MaxTime
    /\ dbNow' = dbNow + 1
    /\ UNCHANGED <<dbWait, dbTimeout, dbTimers, dbCalls, dbInvoked,
                   walletVars, sendVars, bdVars, txVars, parseVars, svcVars, utilVars>>

NextDebounce ==
    \/ \E w \in Waits : Debounce(w)
    \/ \E a \in DbArgs : DbCall(a)
    \/ \E t \in dbTimers : DbTimerRun(t)
    \/ DbTick

DbInit ==
    /\ dbWait = -1
    /\ dbNow = 0
    /\ dbTimeout = 0
    /\ dbTimers = {}
    /\ dbCalls = <<>>
    /\ dbInvoked = <<>>

-----------------------------------------------------------------------------
vars == <<walletVars, sendVars, bdVars, txVars, parseVars, svcVars, utilVars, dbVars>>

Init == WalletInit /\ SendInit /\ BdInit /\ TxInit /\ ParseInit /\ SvcInit /\ UtilInit /\ DbInit

SpecUtil == Init /\ [][NextUtil]_vars

SpecDebounce == Init /\ [][NextDebounce]_vars

NextService ==
    \/ \E m \in SvcMethods, ok \in BOOLEAN : SvcInvoke(m, ok)
    \/ \E i \in 1..(Limit + 1) : SvcSettle(i)
    \/ SvcResume

SpecService == Init /\ [][NextService]_vars

InitSend == Init

InitBalance == Init

NextTx ==
    \/ \E k \in Keys : TxWalletConnect(k)
    \/ TxWalletDisconnect
    \/ \E k \in Keys : TxWalletSwitch(k)
    \/ TxClickRefresh
    \/ \E i \in 1..MaxTxInFlight : TxRpcSettle(i)
    \/ \E i \in 1..MaxTxInFlight : TxResume(i)

SpecTx == Init /\ [][NextTx]_vars

NextParse == ChooseParseInput \/ ApplyParseTransaction

SpecParse == Init /\ [][NextParse]_vars

NextBalance ==
    \/ \E ar \in BOOLEAN, ri \in Intervals : BdMount(ar, ri)
    \/ BdUnmount
    \/ \E k \in Keys : BdWalletConnect(k)
    \/ BdWalletDisconnect
    \/ \E k \in Keys : BdWalletSwitch(k)
    \/ \E ar \in BOOLEAN, ri \in Intervals : BdSetProps(ar, ri)
    \/ \E t \in timers : BdTimerFire(t)
    \/ BdClickRefresh
    \/ \E i \in 1..MaxInFlight : BdRpcSettle(i)
    \/ \E i \in 1..MaxInFlight : BdResume(i)

SpecBalance == InitBalance /\ [][NextBalance]_vars

NextSend ==
    \/ \E r \in RecipientInputs : SetRecipient(r)
    \/ \E a \in AmountInputs : SetAmount(a)
    \/ \E k \in Keys : SendWalletConnect(k)
    \/ SendWalletDisconnect
    \/ HandleSendSol
    \/ SendRpcSettle
    \/ SendResume

SpecSend == InitSend /\ [][NextSend]_vars

\* a page that shows one of the three components; another one takes its place
\* only while the one shown is in the state it is constructed in
NextPage ==
    \/ BdInit /\ TxInit /\ NextSend
    \/ SendInit /\ TxInit /\ NextBalance
    \/ SendInit /\ BdInit /\ NextTx

SpecPage == Init /\ [][NextPage]_vars

-----------------------------------------------------------------------------
(* Properties of SendSol *)

CallOrder == <<"getBalance", "getLatestBlockhash", "sendTransaction", "confirmTransaction">>

IsPositiveFinite(n) == n.k = "fin" /\ n.v > 0

\* the inputs the attempt in sendLocals was made with are acceptable
AttemptInputsValid ==
    /\ Trim(sendLocals.recipient) # <<>>
    /\ IsPositiveFinite(ToNumber(sendLocals.amount))
    /\ PublicKeyParses(sendLocals.recipient)

\* C1: an attempt issues a network call only if its recipient is non-empty, its
\* amount is a positive finite number and its recipient parses as an address;
\* an attempt with any other input ends with an error status and no call.
C1_NoCallUnlessInputsValid ==
    sendLocals.called =>
        /\ rpcLog # <<>> => AttemptInputsValid
        /\ ~AttemptInputsValid => status.type = "error" /\ rpcLog = <<>>

\* C2: the calls of an attempt are issued in the order balance, blockhash,
\* submission, confirmation, each after the one before it resolved; the
\* submitted transaction carries the blockhash just returned and the sender
\* as fee payer; the confirmation is of the signature the submission returned,
\* at 'confirmed'; and the status is 'success' only when that confirmation
\* has resolved.
C2_StepsInOrderSuccessAfterConfirm ==
    /\ Len(rpcLog) <= Len(CallOrder)
    /\ \A i \in 1..Len(rpcLog) :
          /\ rpcLog[i].call = CallOrder[i]
          /\ i < Len(rpcLog) => rpcLog[i].outcome = "fulfilled"
    /\ Len(rpcLog) >= 3 =>
          /\ rpcLog[3].transaction.recentBlockhash = rpcLog[2].result
          /\ rpcLog[3].transaction.feePayer = sendLocals.publicKey
          /\ sendLocals.publicKey \in Keys
    /\ Len(rpcLog) >= 4 =>
          /\ rpcLog[4].signature = rpcLog[3].result
          /\ rpcLog[4].commitment = "confirmed"
    /\ status.type = "success" =>
          /\ Len(rpcLog) = 4
          /\ rpcLog[4].outcome = "fulfilled"
          /\ status.signature = rpcLog[4].signature
          /\ sendPc = "idle"

C2_Witness ==
    /\ status.type = "success"
    /\ Len(rpcLog) = 4
    /\ rpcLog[4].outcome = "fulfilled"

\* the awaited step fails: its promise rejected, or the balance is too small
SendStepFails ==
    /\ sendPc # "idle"
    /\ \/ sendResp.state = "rejected"
       \/ /\ sendPc = "getBalance" /\ sendResp.state = "fulfilled"
          /\ NumLt(Fin(sendResp.num), sendLocals.lamports)

ExpectedFailureMessage ==
    IF sendResp.state = "rejected"
    THEN (IF sendResp.thrown.isError THEN sendResp.thrown.message ELSE "Transaction failed")
    ELSE "Insufficient balance"

\* a step of handleSendSol (a step of the wallet or of the user's typing is none)
SendHandlerStep ==
    <<isLoading, status, sendPc, sendLocals, sendResp, rpcLog>>'
        # <<isLoading, status, sendPc, sendLocals, sendResp, rpcLog>>

C8_FormClearedOnlyOnConfirmedSuccess ==
    [][SendHandlerStep =>
         IF sendPc = "confirmTransaction" /\ sendResp.state = "fulfilled"
         THEN recipient' = <<>> /\ amount' = <<>> /\ status'.type = "success"
         ELSE recipient' = recipient /\ amount' = amount /\ status'.type # "success"]_vars

C8_Witness ==
    /\ status.type = "success"
    /\ sendPc = "idle"
    /\ sendLocals.recipient # <<>> /\ sendLocals.amount # <<>>
    /\ recipient = <<>> /\ amount = <<>>

-----------------------------------------------------------------------------
(* Properties of BalanceDisplay *)

\* C4: while the component is mounted and the wallet is disconnected, the
\* stored balance is null.
C4_DisconnectedBalanceIsNull ==
    (mounted = "yes" /\ ~connected) => balance.isNull

\* a step that starts a fetch from the interval's callback
TimerFetchStarts ==
    /\ Len(bdInflight') > Len(bdInflight)
    /\ bdInflight'[Len(bdInflight')].origin = "timer"

\* C5: at most one interval is set at any time; one is set exactly while the
\* component is mounted with autoRefresh and the wallet is connected, and it
\* is the one of the current address and refresh interval; each time it
\* elapses exactly one fetch is started, for the connected address; no
\* timer-driven fetch starts while disconnected or after the unmount.
C5_OneTimerOneFetchPerInterval ==
    /\ [](/\ Cardinality(timers) <= 1
          /\ timers # {} <=> (mounted = "yes" /\ connected /\ autoRefresh)
          /\ \A t \in timers :
                t.key = publicKey /\ t.connected /\ t.interval = refreshInterval)
    /\ [][TimerFetchStarts =>
            /\ mounted = "yes" /\ connected /\ autoRefresh
            /\ Cardinality(timers) = 1
            /\ Len(bdInflight') = Len(bdInflight) + 1
            /\ SubSeq(bdInflight', 1, Len(bdInflight)) = bdInflight
            /\ bdInflight'[Len(bdInflight')].key = publicKey]_vars

C5_Witness ==
    /\ mounted = "yes" /\ connected /\ autoRefresh
    /\ Cardinality(timers) = 1
    /\ \E i \in 1..Len(bdInflight) : bdInflight[i].origin = "timer"

\* C9: a fetch that completes writes its own result, whatever other fetches
\* are in flight and whichever was started last: when fetch i leaves the
\* in-flight list fulfilled, the balance becomes its result; when it leaves
\* rejected, the balance is left as it is.
C9_EachCompletionWritesItsResult ==
    [][(mounted = "yes" /\ Len(bdInflight') < Len(bdInflight)) =>
         \E i \in 1..Len(bdInflight) :
            /\ bdInflight' = RemoveAt(bdInflight, i)
            /\ bdInflight[i].resp.state # "pending"
            /\ bdInflight[i].resp.state = "fulfilled" =>
                  balance' = SolOf(bdInflight[i].resp.num)
            /\ bdInflight[i].resp.state = "rejected" => balance' = balance]_vars

\* a manual refresh started while a timer-driven one is in flight, both answered,
\* with different balances: the one that completes last decides
C9_Witness ==
    /\ mounted = "yes"
    /\ Len(bdInflight) = 2
    /\ bdInflight[1].origin = "timer" /\ bdInflight[2].origin = "manual"
    /\ bdInflight[1].resp.state = "fulfilled" /\ bdInflight[2].resp.state = "fulfilled"
    /\ bdInflight[1].resp.num # bdInflight[2].resp.num

-----------------------------------------------------------------------------
(* Properties of TransactionList *)

\* the string s holds the marker at some offset
HoldsMarker(s, m) ==
    \E k \in 0..(Len(s) - Len(m)) : \A j \in 1..Len(m) : s[k + j] = m[j]

ParseInDelta ==
    LET meta == parseIn.tx.meta IN
    IF meta.isNull THEN 0
    ELSE (IF meta.postBalances = <<>> THEN 0 ELSE meta.postBalances[1])
         - (IF meta.preBalances = <<>> THEN 0 ELSE meta.preBalances[1])

ParseInHasStake ==
    \E i \in 1..Len(parseIn.tx.instructions) :
        HoldsMarker(parseIn.tx.instructions[i], StakeMarker)

\* the token-balance entries the record is built from are meta.preTokenBalances
ParseInHasTokenEntries ==
    ~parseIn.tx.meta.isNull /\ parseIn.tx.meta.preTokenBalances > 0

C6_FailureKeepsList ==
    [][Len(txInflight') < Len(txInflight) =>
         \E i \in 1..Len(txInflight) :
            /\ txInflight' = RemoveAt(txInflight, i)
            /\ txInflight[i].resp.state # "pending"
            /\ txInflight[i].resp.state = "rejected" =>
                  /\ txError' = "Failed to fetch transactions"
                  /\ transactions' = transactions
                  /\ txLoading' = FALSE]_vars

\* a loaded list, kept after a later fetch failed
C6_Witness ==
    /\ txError = "Failed to fetch transactions"
    /\ transactions # <<>>
    /\ txInflight = <<>>

-----------------------------------------------------------------------------
(* Properties of SolanaService *)

SvcHasRejected == \E i \in 1..Len(svcCalls) : svcCalls[i].state = "rejected"

\* C10: a method makes no call on the connection twice; once one of its calls
\* is rejected it makes no further call and does not return: it raises its own
\* fixed error and yields no value; a method that returned had every call
\* fulfilled, and getTransactionHistory then returns one record per signature.
C10_NoRetryGenericErrorNoPartial ==
    /\ [](/\ \A i \in 1..Len(svcCalls) : \A j \in 1..Len(svcCalls) :
                i # j => <<svcCalls[i].name, svcCalls[i].arg>>
                            # <<svcCalls[j].name, svcCalls[j].arg>>
          /\ svcState = "threw" =>
                svcThrown = GenericError(svcMethod) /\ svcReturn = <<>>
          /\ svcState = "returned" =>
                /\ ~SvcHasRejected
                /\ \A i \in 1..Len(svcCalls) : svcCalls[i].state = "fulfilled"
                /\ svcThrown = ""
                /\ svcMethod = "getTransactionHistory" =>
                      /\ Len(svcReturn) = Len(svcCalls[1].value)
                      /\ Len(svcCalls) = 1 + Len(svcCalls[1].value))
    /\ [][(svcState = "running" /\ SvcHasRejected) =>
            /\ Len(svcCalls') = Len(svcCalls)
            /\ svcState' \in {"running", "threw"}
            /\ svcReturn' = <<>>]_vars

\* getTransactionHistory raised its error although one lookup had succeeded
C10_Witness ==
    /\ svcMethod = "getTransactionHistory"
    /\ svcState = "threw"
    /\ svcThrown = "Failed to fetch transaction history"
    /\ \E i \in 2..Len(svcCalls) : svcCalls[i].state = "fulfilled"
    /\ \E i \in 2..Len(svcCalls) : svcCalls[i].state = "rejected"

-----------------------------------------------------------------------------
(* The loading flags *)

\* C11: in no state is a component's loading flag true while none of its
\* operations is in flight, and the step that ends an operation (its last call
\* resolved or failed, or a check after it failed) leaves the flag false.
C11_LoadingOnlyWhileInFlight ==
    /\ [](/\ isLoading => sendPc # "idle"
          /\ (mounted = "yes" /\ bdLoading) => bdInflight # <<>>
          /\ txLoading => txInflight # <<>>)
    /\ [][/\ (sendPc # "idle" /\ sendPc' = "idle") => ~isLoading'
          /\ (mounted = "yes" /\ Len(bdInflight') < Len(bdInflight)) => ~bdLoading'
          /\ Len(txInflight') < Len(txInflight) => ~txLoading']_vars

\* a transfer ended by a rejected call: the form is usable again
C11_Witness ==
    /\ sendPc = "idle"
    /\ rpcLog # <<>>
    /\ rpcLog[Len(rpcLog)].outcome = "rejected"
    /\ status.type = "error"
    /\ ~isLoading

-----------------------------------------------------------------------------
(* The amount of a record *)

\* an amount in SOL, in lamports
LamportsOf(sol) == sol.whole * LAMPORTS_PER_SOL + sol.nano

\* C12: the amount of a record with a negative balance change is the size of
\* the decrease less the fee (amount + fee = |change|); with a change that is
\* not negative it is |change|.
C12_AmountExcludesFee ==
    parseOut # NoParseOut =>
        IF ParseInDelta < 0
        THEN LamportsOf(parseOut.amount) + LamportsOf(parseOut.fee) = Abs(ParseInDelta)
        ELSE LamportsOf(parseOut.amount) = Abs(ParseInDelta)

-----------------------------------------------------------------------------
(* Properties of the helpers *)

UtilPath == IF utilIn.fn = "getExplorerUrl" THEN TxPath ELSE AccountPath

\* C13: for 'mainnet-beta' the link is the bare
\* 'https://explorer.solana.com/tx/<signature>' (resp. '/account/<address>')
\* with no '?'; for 'devnet' and 'testnet' it is that same URL followed by
\* '?cluster=<cluster>', so the path always comes before the '?'.
C13_PathBeforeQuery ==
    (utilOut # NoUtilOut /\ utilIn.fn \in {"getExplorerUrl", "getAccountExplorerUrl"}) =>
        LET bare == ExplorerBase \o UtilPath \o utilIn.subject
        IN  utilOut = Returned(IF utilIn.cluster = MainnetBeta THEN bare
                               ELSE bare \o ClusterQuery \o utilIn.cluster)

\* the first n items of s, all of s when it has fewer
FirstChars(s, n) == [i \in 1..Min(n, Len(s)) |-> s[i]]

\* the last n items of s, all of s when it has fewer
LastChars(s, n) == [i \in 1..Min(n, Len(s)) |-> s[Len(s) - Min(n, Len(s)) + i]]

\* C15: truncation returns a value for every string and every count n >= 1:
\* the empty string for the empty string, and otherwise the first min(n, |s|)
\* characters, '...', and the last min(n, |s|) characters.
C15_TruncationKeepsBothEnds ==
    (/\ utilIn.fn \in {"formatAddress", "formatPublicKey", "shortenSignature"}
     /\ utilOut # NoUtilOut
     /\ utilIn.chars # Undefined /\ utilIn.chars >= 1) =>
        /\ utilOut.state = "returned"
        /\ utilOut.value =
              IF utilIn.subject = <<>> THEN <<>>
              ELSE FirstChars(utilIn.subject, utilIn.chars) \o <<".", ".", ".">>
                      \o LastChars(utilIn.subject, utilIn.chars)

\* 'ABCDEFGH' truncated with n = 4 is 'ABCD...EFGH'
C15_Witness ==
    /\ utilIn.fn = "formatAddress"
    /\ utilIn.subject = <<"A", "B", "C", "D", "E", "F", "G", "H">>
    /\ utilIn.chars = 4
    /\ utilOut = Returned(<<"A", "B", "C", "D", ".", ".", ".", "E", "F", "G", "H">>)

\* C16: a balance of 0 is rendered '0.00'; a balance above 0 and below 0.001
\* with 6 decimals; from 0.001 up to but excluding 1 with 4 decimals; from 1
\* on with 2 decimals.
C16_PrecisionTiers ==
    (utilIn.fn = "formatBalance" /\ utilOut # NoUtilOut) =>
        /\ utilOut.state = "returned"
        /\ utilOut.value.digits =
              IF utilIn.lamports = 0 THEN 2
              ELSE IF utilIn.lamports < LAMPORTS_PER_SOL \div 1000 THEN 6
              ELSE IF utilIn.lamports < LAMPORTS_PER_SOL THEN 4
              ELSE 2
        /\ utilIn.lamports = 0 => utilOut.value.whole = 0 /\ utilOut.value.frac = 0
        /\ utilOut.value.frac \in 0..(Pow10(utilOut.value.digits) - 1)

\* 0.0005 SOL is rendered with 6 decimals
C16_Witness ==
    /\ utilIn.fn = "formatBalance"
    /\ utilIn.lamports = 500000
    /\ utilOut = Returned([whole |-> 0, frac |-> 500, digits |-> 6])

-----------------------------------------------------------------------------
(* Properties of debounce *)

\* the invocations of func made by the timer of call c
InvocationsFor(c) == {k \in 1..Len(dbInvoked) : dbInvoked[k].handle = c}

\* C14: a call cancels the pending invocation of the call before it, so at most
\* the timer of the latest call is pending; every invocation of func is that of
\* a call which no other call followed within the wait delay, is made once for
\* it, not before wait has passed since it, and with its arguments; the latest
\* call is either still pending or was invoked exactly once.
C14_TrailingCallOnly ==
    /\ \A t \in dbTimers : t.handle = Len(dbCalls)
    /\ \A k \in 1..Len(dbInvoked) :
          LET c == dbInvoked[k].handle IN
          /\ c \in 1..Len(dbCalls)
          /\ dbInvoked[k].args = dbCalls[c].args
          /\ dbInvoked[k].at >= dbCalls[c].at + dbWait
          /\ \A j \in (c + 1)..Len(dbCalls) : dbCalls[j].at >= dbCalls[c].at + dbWait
          /\ InvocationsFor(c) = {k}
    /\ dbCalls # <<>> =>
          IF \E t \in dbTimers : t.handle = Len(dbCalls)
          THEN InvocationsFor(Len(dbCalls)) = {}
          ELSE Cardinality(InvocationsFor(Len(dbCalls))) = 1

\* two calls closer than the delay: func ran once, for the second, with its
\* arguments
C14_Witness ==
    /\ Len(dbCalls) = 2
    /\ dbCalls[2].at < dbCalls[1].at + dbWait
    /\ dbCalls[1].args # dbCalls[2].args
    /\ Len(dbInvoked) = 1
    /\ dbInvoked[1].handle = 2
    /\ dbInvoked[1].args = dbCalls[2].args

-----------------------------------------------------------------------------
(* The records of the list and the ledger *)

\* C17: every record of the list is the record of one ledger transaction: its
\* signature, slot and block time are those of the transaction its type,
\* amount, fee and status were computed from.
C17_RecordOfOneTransaction ==
    \A i \in 1..Len(transactions) :
        \E k \in 1..Len(SigInfos) :
            /\ transactions[i].signature = SigInfos[k].signature
            /\ transactions[i] =
                  ParseTransaction(SigInfos[k], LedgerTx(SigInfos[k].signature),
                                   transactions[i].from)

-----------------------------------------------------------------------------
(* Overlapping fetches *)

\* C18: while a fetch of BalanceDisplay or of TransactionList is in flight, the
\* loading flag of that component is true.
C18_LoadingWhileAnyInFlight ==
    /\ (mounted = "yes" /\ bdInflight # <<>>) => bdLoading
    /\ txInflight # <<>> => txLoading

\* BalanceDisplay renders the balance as a number
BalanceShown ==
    /\ mounted = "yes"
    /\ connected
    /\ ~bdLoading
    /\ bdError = NoError
    /\ ~balance.isNull

\* C19: a balance rendered as a number was fetched for the connected address:
\* a fetch whose completion leaves a number on display was issued for the
\* address connected at that moment (a number stays on display only until the
\* next wallet change or fetch, which hide it).
C19_ShownBalanceIsOfCurrentKey ==
    [][\A i \in 1..Len(bdInflight) :
          (/\ mounted = "yes"
           /\ bdInflight[i].resp.state = "fulfilled"
           /\ bdInflight' = RemoveAt(bdInflight, i)
           /\ BalanceShown') => bdInflight[i].key = publicKey']_vars

=============================================================================
